---- MODULE Spec2Model ----
(***************************************************************************)
(* readpe: decoding of the DOS header, the COFF/file header and the        *)
(* section headers of a Portable Executable image (src/readpe.cpp).        *)
(*                                                                         *)
(* A string is a sequence of characters, each character a one-character    *)
(* string; a byte that is not printable ASCII, and each of the bytes 22,   *)
(* 5c and 60, is the token "<hh>" of its two hex digits.  Text             *)
(* that the program inserts as one literal (registry names, fixed          *)
(* messages, month and weekday names) is one token.                        *)
(***************************************************************************)
EXTENDS Integers, Sequences, FiniteSets, TLC

(***************************************************************************)
(* Bounds of the checked inputs.                                           *)
(***************************************************************************)
\* Largest NumberOfSections placed in an input image.
MaxSections == 3
\* Bytes of readable memory that may lie behind the end of buffer_.
MaxSlack == 4096
MaxParses == 2

(***************************************************************************)
(* Machine arithmetic.  An unsigned integer of n bytes is the sequence of  *)
(* its n bytes, least significant first, as it lies in memory; a type is   *)
(* given by its size in bytes.  (Numbers of the program reach past any     *)
(* bound on the naturals a checker computes with; the bytes do not.)       *)
(***************************************************************************)
U16 == 2
U32 == 4
U64 == 8

RECURSIVE Pow2(_)
Pow2(n) == IF n = 0 THEN 1 ELSE 2 * Pow2(n - 1)

\* 256^(n - 1) for the four bytes a natural below 2^31 has.
Radix == <<1, 256, 65536, 16777216>>

\* The unsigned integer of `size` bytes with the value of the natural v.
Unsigned(v, size) ==
  [n \in 1..size |-> IF n <= 4 THEN (v \div Radix[n]) % 256 ELSE 0]

\* Conversion to the unsigned type of `size` bytes: truncation or zero extension.
Convert(a, size) == [n \in 1..size |-> IF n <= Len(a) THEN a[n] ELSE 0]

\* The natural an unsigned integer stands for (used below 2^31 only).
RECURSIVE Value(_)
Value(a) == IF a = <<>> THEN 0 ELSE Head(a) + 256 * Value(Tail(a))

IsZero(a) == \A n \in DOMAIN a : a[n] = 0

\* The bytes n .. Len(a) of a + b, given the carry into byte n.
RECURSIVE AddCarry(_, _, _, _)
AddCarry(a, b, n, carry) ==
  IF n > Len(a) THEN <<>>
  ELSE IF n > Len(b) /\ carry = 0 THEN SubSeq(a, n, Len(a))
  ELSE LET sum == a[n] + (IF n <= Len(b) THEN b[n] ELSE 0) + carry
       IN  <<sum % 256>> \o AddCarry(a, b, n + 1, sum \div 256)

\* a + b in the type of a (modulo 2^(8 * Len(a))), b of a type no wider.
Add(a, b) == AddCarry(a, b, 1, 0)

\* a < b for two unsigned integers of one type.
RECURSIVE Less(_, _)
Less(a, b) ==
  IF a = <<>> THEN FALSE
  ELSE LET n == Len(a)
       IN  IF a[n] # b[n] THEN a[n] < b[n]
           ELSE Less(SubSeq(a, 1, n - 1), SubSeq(b, 1, n - 1))

\* Quotient and remainder of the bytes 1..n of a by the natural k, the
\* remainder rem carried in from the bytes above.
RECURSIVE DivFrom(_, _, _, _)
DivFrom(a, k, n, rem) ==
  IF n = 0 THEN [quot |-> <<>>, rem |-> rem]
  ELSE LET cur  == rem * 256 + a[n]
           rest == DivFrom(a, k, n - 1, cur % k)
       IN  [quot |-> Append(rest.quot, cur \div k), rem |-> rest.rem]

DivMod(a, k) == DivFrom(a, k, Len(a), 0)

\* size_t of an LP64 build.
SizeT(a) == Convert(a, U64)

\* Bitwise and, or of two naturals.
RECURSIVE BitAnd(_, _)
BitAnd(a, b) ==
  IF a = 0 \/ b = 0 THEN 0
  ELSE (IF a % 2 = 1 /\ b % 2 = 1 THEN 1 ELSE 0) + 2 * BitAnd(a \div 2, b \div 2)

RECURSIVE BitOr(_, _)
BitOr(a, b) ==
  IF a = 0 THEN b
  ELSE IF b = 0 THEN a
  ELSE (IF a % 2 = 1 \/ b % 2 = 1 THEN 1 ELSE 0) + 2 * BitOr(a \div 2, b \div 2)

\* a & b of two unsigned integers of one type.
And(a, b) == [n \in DOMAIN a |-> BitAnd(a[n], b[n])]

(***************************************************************************)
(* Special processing rules.                                               *)
(***************************************************************************)
AS_DEC == 1
AS_HEX == 2
AS_CHAR == 4
WITH_TIME == 8
WITH_FLAG == 16
WITH_FLAGS == 32

(***************************************************************************)
(* Characters.                                                             *)
(***************************************************************************)
CharTable ==
  <<
     "<00>", "<01>", "<02>", "<03>", "<04>", "<05>", "<06>", "<07>",
     "<08>", "<09>", "<0a>", "<0b>", "<0c>", "<0d>", "<0e>", "<0f>",
     "<10>", "<11>", "<12>", "<13>", "<14>", "<15>", "<16>", "<17>",
     "<18>", "<19>", "<1a>", "<1b>", "<1c>", "<1d>", "<1e>", "<1f>",
     " ", "!", "<22>", "#", "$", "%", "&", "'",
     "(", ")", "*", "+", ",", "-", ".", "/",
     "0", "1", "2", "3", "4", "5", "6", "7",
     "8", "9", ":", ";", "<", "=", ">", "?",
     "@", "A", "B", "C", "D", "E", "F", "G",
     "H", "I", "J", "K", "L", "M", "N", "O",
     "P", "Q", "R", "S", "T", "U", "V", "W",
     "X", "Y", "Z", "[", "<5c>", "]", "^", "_",
     "<60>", "a", "b", "c", "d", "e", "f", "g",
     "h", "i", "j", "k", "l", "m", "n", "o",
     "p", "q", "r", "s", "t", "u", "v", "w",
     "x", "y", "z", "{", "|", "}", "~", "<7f>",
     "<80>", "<81>", "<82>", "<83>", "<84>", "<85>", "<86>", "<87>",
     "<88>", "<89>", "<8a>", "<8b>", "<8c>", "<8d>", "<8e>", "<8f>",
     "<90>", "<91>", "<92>", "<93>", "<94>", "<95>", "<96>", "<97>",
     "<98>", "<99>", "<9a>", "<9b>", "<9c>", "<9d>", "<9e>", "<9f>",
     "<a0>", "<a1>", "<a2>", "<a3>", "<a4>", "<a5>", "<a6>", "<a7>",
     "<a8>", "<a9>", "<aa>", "<ab>", "<ac>", "<ad>", "<ae>", "<af>",
     "<b0>", "<b1>", "<b2>", "<b3>", "<b4>", "<b5>", "<b6>", "<b7>",
     "<b8>", "<b9>", "<ba>", "<bb>", "<bc>", "<bd>", "<be>", "<bf>",
     "<c0>", "<c1>", "<c2>", "<c3>", "<c4>", "<c5>", "<c6>", "<c7>",
     "<c8>", "<c9>", "<ca>", "<cb>", "<cc>", "<cd>", "<ce>", "<cf>",
     "<d0>", "<d1>", "<d2>", "<d3>", "<d4>", "<d5>", "<d6>", "<d7>",
     "<d8>", "<d9>", "<da>", "<db>", "<dc>", "<dd>", "<de>", "<df>",
     "<e0>", "<e1>", "<e2>", "<e3>", "<e4>", "<e5>", "<e6>", "<e7>",
     "<e8>", "<e9>", "<ea>", "<eb>", "<ec>", "<ed>", "<ee>", "<ef>",
     "<f0>", "<f1>", "<f2>", "<f3>", "<f4>", "<f5>", "<f6>", "<f7>",
     "<f8>", "<f9>", "<fa>", "<fb>", "<fc>", "<fd>", "<fe>", "<ff>"
  >>

\* The character a stream inserts for the byte b.
Chr(b) == CharTable[b + 1]

\* The unsigned byte of the character c.
Ord(c) == (CHOOSE n \in 1..256 : CharTable[n] = c) - 1

HexDigits ==
  <<"0", "1", "2", "3", "4", "5", "6", "7", "8", "9", "a", "b", "c", "d", "e", "f">>

\* The hex digits of the bytes 1..n of a, most significant first.
RECURSIVE Nibbles(_, _)
Nibbles(a, n) ==
  IF n = 0 THEN <<>>
  ELSE <<HexDigits[(a[n] \div 16) + 1], HexDigits[(a[n] % 16) + 1]>> \o Nibbles(a, n - 1)

RECURSIVE StripZeros(_)
StripZeros(digits) ==
  IF Len(digits) > 1 /\ Head(digits) = "0" THEN StripZeros(Tail(digits)) ELSE digits

\* operator<< of an unsigned integer under std::hex.
Hex(a) == StripZeros(Nibbles(a, Len(a)))

\* The decimal digits of a non-zero unsigned integer.
RECURSIVE DecDigits(_)
DecDigits(a) ==
  IF IsZero(a) THEN <<>>
  ELSE DecDigits(DivMod(a, 10).quot) \o <<HexDigits[DivMod(a, 10).rem + 1]>>

\* operator<< of an unsigned integer under std::dec.
Dec(a) == IF IsZero(a) THEN <<"0">> ELSE DecDigits(a)

\* operator< of std::string: lexicographic on the unsigned bytes, a proper
\* prefix first.
\* A faulty variant of StringLess: the shorter key first, keys of one length
\* in byte order (the order of a length-first comparator).
RECURSIVE StringLessByLength(_, _)
StringLessByLength(a, b) ==
  IF Len(a) # Len(b) THEN Len(a) < Len(b)
  ELSE IF a = <<>> THEN FALSE
  ELSE IF Head(a) = Head(b) THEN StringLessByLength(Tail(a), Tail(b))
  ELSE Ord(Head(a)) < Ord(Head(b))

RECURSIVE StringLess(_, _)
StringLess(a, b) ==
  IF b = <<>> THEN FALSE
  ELSE IF a = <<>> THEN TRUE
  ELSE IF Head(a) = Head(b) THEN StringLess(Tail(a), Tail(b))
  ELSE Ord(Head(a)) < Ord(Head(b))

(***************************************************************************)
(* The keys the program looks up by name.                                  *)
(***************************************************************************)
k_01_dos_e_magic == <<"0","1","_","d","o","s","_","e","_","m","a","g","i","c">>
k_16_dos_e_lfanew == <<"1","6","_","d","o","s","_","e","_","l","f","a","n","e","w">>
k_01_coff_signature == <<"0","1","_","c","o","f","f","_","s","i","g","n","a","t","u","r","e">>
k_02_coff_machine == <<"0","2","_","c","o","f","f","_","m","a","c","h","i","n","e">>
k_03_coff_sections == <<"0","3","_","c","o","f","f","_","s","e","c","t","i","o","n","s">>
k_07_coff_SizeOfOptionalHeader == <<"0","7","_","c","o","f","f","_","S","i","z","e","O","f","O","p","t","i","o","n","a","l","H","e","a","d","e","r">>
k_08_coff_characteristics == <<"0","8","_","c","o","f","f","_","c","h","a","r","a","c","t","e","r","i","s","t","i","c","s">>
k_07_section_characteristics == <<"0","7","_","s","e","c","t","i","o","n","_","c","h","a","r","a","c","t","e","r","i","s","t","i","c","s">>

(***************************************************************************)
(* The relationship between the field, flag and the printed value.         *)
(***************************************************************************)
flags ==
     <<k_02_coff_machine, <<0, 0, 0, 0>>>> :> "IMAGE_FILE_MACHINE_UNKNOWN" @@  \* 0x0000
     <<k_02_coff_machine, <<100, 134, 0, 0>>>> :> "IMAGE_FILE_MACHINE_AMD64" @@  \* 0x8664
     <<k_02_coff_machine, <<76, 1, 0, 0>>>> :> "IMAGE_FILE_MACHINE_I386" @@  \* 0x014c
     <<k_02_coff_machine, <<100, 170, 0, 0>>>> :> "IMAGE_FILE_MACHINE_ARM64" @@  \* 0xaa64
     <<k_02_coff_machine, <<0, 2, 0, 0>>>> :> "IMAGE_FILE_MACHINE_IA64" @@  \* 0x0200
     <<k_08_coff_characteristics, <<2, 0, 0, 0>>>> :> "IMAGE_FILE_EXECUTABLE_IMAGE" @@  \* 0x0002
     <<k_08_coff_characteristics, <<32, 0, 0, 0>>>> :> "IMAGE_FILE_LARGE_ADDRESS_AWARE" @@  \* 0x0020
     <<k_08_coff_characteristics, <<0, 1, 0, 0>>>> :> "IMAGE_FILE_32BIT_MACHINE" @@  \* 0x0100
     <<k_08_coff_characteristics, <<0, 32, 0, 0>>>> :> "IMAGE_DLLCHARACTERISTICS_WDM_DRIVER" @@  \* 0x2000
     <<k_07_section_characteristics, <<32, 0, 0, 0>>>> :> "IMAGE_SCN_CNT_CODE" @@  \* 0x00000020
     <<k_07_section_characteristics, <<64, 0, 0, 0>>>> :> "IMAGE_SCN_CNT_INITIALIZED_DATA" @@  \* 0x00000040
     <<k_07_section_characteristics, <<0, 0, 0, 2>>>> :> "IMAGE_SCN_MEM_DISCARDABLE" @@  \* 0x02000000
     <<k_07_section_characteristics, <<0, 0, 0, 4>>>> :> "IMAGE_SCN_MEM_NOT_CACHED" @@  \* 0x04000000
     <<k_07_section_characteristics, <<0, 0, 0, 8>>>> :> "IMAGE_SCN_MEM_NOT_PAGED" @@  \* 0x08000000
     <<k_07_section_characteristics, <<0, 0, 0, 16>>>> :> "IMAGE_SCN_MEM_SHARED" @@  \* 0x10000000
     <<k_07_section_characteristics, <<0, 0, 0, 32>>>> :> "IMAGE_SCN_MEM_EXECUTE" @@  \* 0x20000000
     <<k_07_section_characteristics, <<0, 0, 0, 64>>>> :> "IMAGE_SCN_MEM_READ" @@  \* 0x40000000
     <<k_07_section_characteristics, <<0, 0, 0, 128>>>> :> "IMAGE_SCN_MEM_WRITE"  \* 0x80000000

(***************************************************************************)
(* Field<T>: T is given by its size in bytes.                              *)
(***************************************************************************)
Field(T, new_offset, new_description, new_rules) ==
  [size |-> T, offset_ |-> new_offset, description_ |-> new_description,
   rules_ |-> new_rules, value_ |-> Unsigned(0, T)]

Entry(label, field) == [key |-> label, field |-> field]

\* rules_ & r
HasRule(rules, r) == BitAnd(rules, r) # 0

(***************************************************************************)
(* The three schemas, in the order the constructors insert them.           *)
(***************************************************************************)
DOS_Schema ==
  <<
     \* 01_dos_e_magic
     Entry(<<"0","1","_","d","o","s","_","e","_","m","a","g","i","c">>,
           Field(U16, 0, "Magic number", BitOr(AS_HEX, AS_CHAR))),
     \* 02_dos_e_cblp
     Entry(<<"0","2","_","d","o","s","_","e","_","c","b","l","p">>,
           Field(U16, 2, "Bytes in last page", AS_DEC)),
     \* 03_dos_e_cp
     Entry(<<"0","3","_","d","o","s","_","e","_","c","p">>,
           Field(U16, 4, "Pages in file", AS_DEC)),
     \* 04_dos_e_crlc
     Entry(<<"0","4","_","d","o","s","_","e","_","c","r","l","c">>,
           Field(U16, 6, "Relocations", AS_DEC)),
     \* 05_dos_e_cparhdr
     Entry(<<"0","5","_","d","o","s","_","e","_","c","p","a","r","h","d","r">>,
           Field(U16, 8, "Size of header in paragraphs", AS_DEC)),
     \* 06_dos_e_minalloc
     Entry(<<"0","6","_","d","o","s","_","e","_","m","i","n","a","l","l","o","c">>,
           Field(U16, 10, "Minimum extra paragraphs", AS_DEC)),
     \* 07_dos_e_maxalloc
     Entry(<<"0","7","_","d","o","s","_","e","_","m","a","x","a","l","l","o","c">>,
           Field(U16, 12, "Maximum extra paragraphs", AS_DEC)),
     \* 08_dos_e_ss
     Entry(<<"0","8","_","d","o","s","_","e","_","s","s">>,
           Field(U16, 14, "Initial (relative) SS value", AS_DEC)),
     \* 09_dos_e_sp
     Entry(<<"0","9","_","d","o","s","_","e","_","s","p">>,
           Field(U16, 16, "Initial SP value", AS_HEX)),
     \* 10_dos_e_ip
     Entry(<<"1","0","_","d","o","s","_","e","_","i","p">>,
           Field(U16, 20, "Initial IP value", AS_HEX)),
     \* 11_dos_e_cs
     Entry(<<"1","1","_","d","o","s","_","e","_","c","s">>,
           Field(U16, 22, "Initial (relative) CS value", AS_HEX)),
     \* 12_dos_e_lfarlc
     Entry(<<"1","2","_","d","o","s","_","e","_","l","f","a","r","l","c">>,
           Field(U16, 24, "Address of relocation table", AS_HEX)),
     \* 13_dos_e_ovno
     Entry(<<"1","3","_","d","o","s","_","e","_","o","v","n","o">>,
           Field(U16, 26, "Overlay number", AS_DEC)),
     \* 14_dos_e_oemid
     Entry(<<"1","4","_","d","o","s","_","e","_","o","e","m","i","d">>,
           Field(U16, 36, "OEM identifier", AS_DEC)),
     \* 15_dos_e_oeminfo
     Entry(<<"1","5","_","d","o","s","_","e","_","o","e","m","i","n","f","o">>,
           Field(U16, 38, "OEM information", AS_DEC)),
     \* 16_dos_e_lfanew
     Entry(<<"1","6","_","d","o","s","_","e","_","l","f","a","n","e","w">>,
           Field(U32, 60, "PE header offset", AS_HEX))
  >>

COFF_Schema ==
  <<
     \* 01_coff_signature
     Entry(<<"0","1","_","c","o","f","f","_","s","i","g","n","a","t","u","r","e">>,
           Field(U32, 0, "coff_signature", 0)),
     \* 02_coff_machine
     Entry(<<"0","2","_","c","o","f","f","_","m","a","c","h","i","n","e">>,
           Field(U16, 4, "Machine", BitOr(AS_HEX, WITH_FLAG))),
     \* 03_coff_sections
     Entry(<<"0","3","_","c","o","f","f","_","s","e","c","t","i","o","n","s">>,
           Field(U16, 6, "Number of Sections", AS_DEC)),
     \* 04_coff_timedatestamp
     Entry(<<"0","4","_","c","o","f","f","_","t","i","m","e","d","a","t","e","s","t","a","m","p">>,
           Field(U32, 8, "Date/time stamp", BitOr(AS_DEC, WITH_TIME))),
     \* 05_coff_PointerToSymbolTable
     Entry(<<"0","5","_","c","o","f","f","_","P","o","i","n","t","e","r","T","o","S","y","m","b","o","l","T","a","b","l","e">>,
           Field(U32, 12, "Symbol Table offset", AS_DEC)),
     \* 06_coff_NumberOfSymbols
     Entry(<<"0","6","_","c","o","f","f","_","N","u","m","b","e","r","O","f","S","y","m","b","o","l","s">>,
           Field(U32, 16, "Number of symbols", AS_DEC)),
     \* 07_coff_SizeOfOptionalHeader
     Entry(<<"0","7","_","c","o","f","f","_","S","i","z","e","O","f","O","p","t","i","o","n","a","l","H","e","a","d","e","r">>,
           Field(U16, 20, "Size of optional header", AS_HEX)),
     \* 08_coff_characteristics
     Entry(<<"0","8","_","c","o","f","f","_","c","h","a","r","a","c","t","e","r","i","s","t","i","c","s">>,
           Field(U16, 22, "Characteristics", BitOr(AS_HEX, WITH_FLAGS)))
  >>

\* A faulty variant of Section_Schema: the field 05_section_raw_offset is
\* declared with an empty description.
Section_SchemaUndescribed ==
  <<
     \* 01_section_name
     Entry(<<"0","1","_","s","e","c","t","i","o","n","_","n","a","m","e">>,
           Field(U64, 0, "    Name", AS_CHAR)),
     \* 02_section_virtual_size
     Entry(<<"0","2","_","s","e","c","t","i","o","n","_","v","i","r","t","u","a","l","_","s","i","z","e">>,
           Field(U32, 8, "    Virtual Size", BitOr(AS_DEC, AS_HEX))),
     \* 03_section_virtual_Address
     Entry(<<"0","3","_","s","e","c","t","i","o","n","_","v","i","r","t","u","a","l","_","A","d","d","r","e","s","s">>,
           Field(U32, 12, "    Virtual Address", AS_HEX)),
     \* 04_section_raw_size
     Entry(<<"0","4","_","s","e","c","t","i","o","n","_","r","a","w","_","s","i","z","e">>,
           Field(U32, 16, "    Size Of Raw Data", BitOr(AS_DEC, AS_HEX))),
     \* 05_section_raw_offset
     Entry(<<"0","5","_","s","e","c","t","i","o","n","_","r","a","w","_","o","f","f","s","e","t">>,
           Field(U32, 20, "", AS_HEX)),
     \* 06_section_NumberOfRelocations
     Entry(<<"0","6","_","s","e","c","t","i","o","n","_","N","u","m","b","e","r","O","f","R","e","l","o","c","a","t","i","o","n","s">>,
           Field(U16, 32, "    Number Of Relocations", AS_HEX)),
     \* 07_section_characteristics
     Entry(<<"0","7","_","s","e","c","t","i","o","n","_","c","h","a","r","a","c","t","e","r","i","s","t","i","c","s">>,
           Field(U32, 36, "    Characteristics", BitOr(AS_HEX, WITH_FLAGS)))
  >>

Section_Schema ==
  <<
     \* 01_section_name
     Entry(<<"0","1","_","s","e","c","t","i","o","n","_","n","a","m","e">>,
           Field(U64, 0, "    Name", AS_CHAR)),
     \* 02_section_virtual_size
     Entry(<<"0","2","_","s","e","c","t","i","o","n","_","v","i","r","t","u","a","l","_","s","i","z","e">>,
           Field(U32, 8, "    Virtual Size", BitOr(AS_DEC, AS_HEX))),
     \* 03_section_virtual_Address
     Entry(<<"0","3","_","s","e","c","t","i","o","n","_","v","i","r","t","u","a","l","_","A","d","d","r","e","s","s">>,
           Field(U32, 12, "    Virtual Address", AS_HEX)),
     \* 04_section_raw_size
     Entry(<<"0","4","_","s","e","c","t","i","o","n","_","r","a","w","_","s","i","z","e">>,
           Field(U32, 16, "    Size Of Raw Data", BitOr(AS_DEC, AS_HEX))),
     \* 05_section_raw_offset
     Entry(<<"0","5","_","s","e","c","t","i","o","n","_","r","a","w","_","o","f","f","s","e","t">>,
           Field(U32, 20, "    Pointer To Raw Data", AS_HEX)),
     \* 06_section_NumberOfRelocations
     Entry(<<"0","6","_","s","e","c","t","i","o","n","_","N","u","m","b","e","r","O","f","R","e","l","o","c","a","t","i","o","n","s">>,
           Field(U16, 32, "    Number Of Relocations", AS_HEX)),
     \* 07_section_characteristics
     Entry(<<"0","7","_","s","e","c","t","i","o","n","_","c","h","a","r","a","c","t","e","r","i","s","t","i","c","s">>,
           Field(U32, 36, "    Characteristics", BitOr(AS_HEX, WITH_FLAGS)))
  >>

(***************************************************************************)
(* FieldMap: a std::map from the key to the Field, kept as the sequence    *)
(* of its entries in key order.                                            *)
(***************************************************************************)
\* std::map::insert: the entry goes to its place in key order; an entry
\* whose key is already present is not inserted.
RECURSIVE insert(_, _)
insert(entries, e) ==
  IF entries = <<>> THEN <<e>>
  ELSE IF Head(entries).key = e.key THEN entries
  ELSE IF StringLess(e.key, Head(entries).key) THEN <<e>> \o entries
  ELSE <<Head(entries)>> \o insert(Tail(entries), e)

\* The run of this->insert calls of a constructor.
RECURSIVE InsertAll(_, _)
InsertAll(entries, schema) ==
  IF schema = <<>> THEN entries
  ELSE InsertAll(insert(entries, Head(schema)), Tail(schema))

DOS_Entries == InsertAll(<<>>, DOS_Schema)
COFF_Entries == InsertAll(<<>>, COFF_Schema)
Section_Entries == InsertAll(<<>>, Section_Schema)

DOS_FieldMap == [file_offset_ |-> Unsigned(0, U64), entries |-> DOS_Entries]
COFF_FieldMap(new_file_offset) ==
  [file_offset_ |-> SizeT(new_file_offset), entries |-> COFF_Entries]
Section_FieldMap(new_file_offset) ==
  [file_offset_ |-> SizeT(new_file_offset), entries |-> Section_Entries]

\* A map that is not constructed yet.
NoMap == [file_offset_ |-> Unsigned(0, U64), entries |-> <<>>]

\* std::map::at
at(map, label) ==
  map.entries[CHOOSE n \in DOMAIN map.entries : map.entries[n].key = label].field

(***************************************************************************)
(* Field<T>::get_value                                                     *)
(***************************************************************************)
DayNames == <<"Sun", "Mon", "Tue", "Wed", "Thu", "Fri", "Sat">>
MonthNames ==
  <<"Jan", "Feb", "Mar", "Apr", "May", "Jun", "Jul", "Aug", "Sep", "Oct", "Nov", "Dec">>

\* Two columns, padded on the left with the character pad.
Pad2(v, pad) ==
  IF v < 10 THEN <<pad>> \o Dec(Unsigned(v, U32)) ELSE Dec(Unsigned(v, U32))

\* put_time( gmtime( &timestamp ), "%c %Z" ) in the classic locale.
put_time(timestamp) ==
  LET days == Value(DivMod(timestamp, 86400).quot)
      secs == DivMod(timestamp, 86400).rem
      wday == (days + 4) % 7
      z    == days + 719468
      era  == z \div 146097
      doe  == z % 146097
      yoe  == (doe - doe \div 1460 + doe \div 36524 - doe \div 146096) \div 365
      doy  == doe - (365 * yoe + yoe \div 4 - yoe \div 100)
      mp   == (5 * doy + 2) \div 153
      mday == doy - (153 * mp + 2) \div 5 + 1
      mon  == IF mp < 10 THEN mp + 3 ELSE mp - 9
      year == yoe + era * 400 + (IF mon <= 2 THEN 1 ELSE 0)
  IN  <<DayNames[wday + 1], " ", MonthNames[mon], " ">> \o Pad2(mday, " ")
        \o <<" ">> \o Pad2(secs \div 3600, "0")
        \o <<":">> \o Pad2((secs % 3600) \div 60, "0")
        \o <<":">> \o Pad2(secs % 60, "0")
        \o <<" ">> \o Dec(Unsigned(year, U32)) \o <<" ", "GMT">>

\* A faulty variant of hexString: no special case for the value zero.
hexStringNoZeroCase(f) == <<"0", "x">> \o Hex(f.value_)

hexString(f) ==
  IF IsZero(f.value_) THEN <<"0", " ">> ELSE <<"0", "x">> \o Hex(f.value_)

\* The sizeof( value_ ) bytes of value_ in memory order (little endian).
charString(f) ==
  [n \in 1..f.size |-> Chr(f.value_[n])]

get_value(f) ==
  LET r == f.rules_
      resultString ==
        IF HasRule(r, AS_HEX) /\ HasRule(r, AS_CHAR)
          THEN hexString(f) \o <<" ", "(">> \o charString(f) \o <<")">>
        ELSE IF HasRule(r, AS_DEC) /\ HasRule(r, AS_HEX)
          THEN hexString(f) \o <<" ", "(">> \o Dec(f.value_)
                 \o <<" ", "b", "y", "t", "e", "s", ")">>
        ELSE IF HasRule(r, AS_DEC) THEN Dec(f.value_) \o <<" ">>
        ELSE IF HasRule(r, AS_HEX) THEN hexString(f)
        ELSE IF HasRule(r, AS_CHAR) THEN charString(f)
        ELSE <<>>
      withTime ==
        IF HasRule(r, WITH_TIME)
          THEN <<"(">> \o put_time(f.value_) \o <<")">>
          ELSE <<>>
      withFlag ==
        IF HasRule(r, WITH_FLAG)
          THEN IF <<k_02_coff_machine, Convert(f.value_, U32)>> \in DOMAIN flags
                 THEN <<" ", flags[<<k_02_coff_machine, Convert(f.value_, U32)>>]>>
                 ELSE <<"UNKNOWN FLAG MAPPING">>
          ELSE <<>>
  IN  resultString \o withTime \o withFlag

(***************************************************************************)
(* Output lines.                                                           *)
(***************************************************************************)
\* A line of plain text.
TextLine(text) ==
  [kind |-> "text", label |-> <<>>, description |-> "", value |-> <<text>>, mask |-> <<>>]

\* The line of one field: description + ":" in 34 columns, then the value.
FieldLine(label, f) ==
  [kind |-> "field", label |-> label, description |-> f.description_,
   value |-> get_value(f), mask |-> <<>>]

\* The line of one set bit: 42 blanks, then the name or the unknown marker.
FlagLine(label, mask) ==
  [kind |-> "flag", label |-> label, description |-> "",
   value |-> IF <<label, Convert(mask, U32)>> \in DOMAIN flags
               THEN <<flags[<<label, Convert(mask, U32)>>]>>
               ELSE <<"UNKNOWN FLAG MAPPING: ", "0", "x">> \o Hex(mask),
   mask |-> mask]

\* 1 << n of the int 1, as the four bytes of the int.  A shift by 32 or more
\* is undefined; no field of the schemas that has WITH_FLAGS is that wide.
ShiftLeft1(n) ==
  CASE n < 32 -> [k \in 1..4 |-> IF k = (n \div 8) + 1 THEN Pow2(n % 8) ELSE 0]

\* Conversion of an int to the unsigned type of `size` bytes.
IntToUnsigned(a, size) ==
  [k \in 1..size |-> IF k <= 4 THEN a[k] ELSE IF a[4] >= 128 THEN 255 ELSE 0]

\* The loop of Field<T>::print_characteristics from bit n on.
\* A faulty variant of CharacteristicsFrom: a set bit the registry does not
\* name is dropped.
RECURSIVE CharacteristicsFromKnown(_, _, _)
CharacteristicsFromKnown(f, label, n) ==
  IF n >= f.size * 8 THEN <<>>
  ELSE LET mask == IntToUnsigned(ShiftLeft1(n), f.size)
       IN  (IF ~IsZero(And(f.value_, mask)) /\ <<label, Convert(mask, U32)>> \in DOMAIN flags
              THEN <<FlagLine(label, mask)>> ELSE <<>>)
             \o CharacteristicsFromKnown(f, label, n + 1)

RECURSIVE CharacteristicsFrom(_, _, _)
CharacteristicsFrom(f, label, n) ==
  IF n >= f.size * 8 THEN <<>>
  ELSE LET mask == IntToUnsigned(ShiftLeft1(n), f.size)
       IN  (IF ~IsZero(And(f.value_, mask)) THEN <<FlagLine(label, mask)>> ELSE <<>>)
             \o CharacteristicsFrom(f, label, n + 1)

print_characteristics(f, label) ==
  <<TextLine("    Characteristics names")>> \o CharacteristicsFrom(f, label, 0)

(***************************************************************************)
(* FieldBase and FieldMap: validate, print.                                *)
(***************************************************************************)
FieldBase_validate(f) == f.description_ # ""

FieldMap_validate(map) ==
  \A n \in DOMAIN map.entries : FieldBase_validate(map.entries[n].field)

\* The body of the loop of FieldMap::print for one entry.
PrintEntry(e) ==
  IF get_value(e.field) = <<>> THEN <<>>
  ELSE <<FieldLine(e.key, e.field)>>
         \o (IF HasRule(e.field.rules_, WITH_FLAGS)
               THEN print_characteristics(e.field, e.key)
               ELSE <<>>)

RECURSIVE PrintEntries(_)
PrintEntries(entries) ==
  IF entries = <<>> THEN <<>>
  ELSE PrintEntry(Head(entries)) \o PrintEntries(Tail(entries))

FieldMap_print(map) == PrintEntries(map.entries)

\* A faulty variant of DOS_validate: the generic validation only, the magic
\* number is not compared.
DOS_validateGenericOnly(map) == FieldMap_validate(map)

DOS_validate(map) ==
  IF ~FieldMap_validate(map) THEN FALSE
  ELSE IF get_value(at(map, k_01_dos_e_magic))
            # <<"0", "x", "5", "a", "4", "d", " ", "(", "M", "Z", ")">> THEN FALSE
  ELSE TRUE

DOS_print(map) == <<TextLine("DOS Header")>> \o FieldMap_print(map)

get_exe_header_offset(map) == at(map, k_16_dos_e_lfanew).value_

\* The sum is a size_t; the function returns it as a uint32_t.
get_section_table_offset(map) ==
  Convert(Add(Add(map.file_offset_, <<24>>),
              at(map, k_07_coff_SizeOfOptionalHeader).value_), U32)

get_number_of_sections(map) == at(map, k_03_coff_sections).value_

\* const uint16_t signature = the uint32_t value_
COFF_validate(map) ==
  IF ~FieldMap_validate(map) THEN FALSE
  ELSE LET signature == Convert(at(map, k_01_coff_signature).value_, U16)
       IN  IF signature # Unsigned(17744, U16) THEN FALSE ELSE TRUE

COFF_print(map) == <<TextLine("COFF/File header")>> \o FieldMap_print(map)

Section_print(map) == <<TextLine("    Section")>> \o FieldMap_print(map)

(***************************************************************************)
(* State.                                                                  *)
(***************************************************************************)
VARIABLES
  memory,          \* the bytes from buffer_.data() on that are not zero
  file_size_,      \* PEFile::file_size_, the size of buffer_
  mapped,          \* the readable bytes from buffer_.data() on
  pc,              \* the position in PEFile::print
  dos_field_map_,  \* the local of PEFile::print
  coff_header_map, \* the local of PEFile::print
  newSection,      \* the local of the section loop
  i,               \* the counter of the section loop (a size_t below 2^16)
  out,             \* the lines written to cout
  exit_status,     \* the exit status of the process, -1 while it runs
  touched,         \* one past the highest index of buffer_ read so far
  trace            \* the parse, validate and print calls made so far

vars ==
  <<memory, file_size_, mapped, pc, dos_field_map_, coff_header_map,
    newSection, i, out, exit_status, touched, trace>>

(***************************************************************************)
(* Field<T>::set_value and FieldMap::parse.  A read behind the end of      *)
(* buffer_ is undefined: it yields whatever the memory there holds, or,    *)
(* where no memory is mapped, ends the process with SIGSEGV.               *)
(***************************************************************************)
ByteAt(a) == IF a \in DOMAIN memory THEN memory[a] ELSE 0

\* memcpy of `size` bytes from the index a on.
memcpy(a, size) == [n \in 1..size |-> ByteAt(Add(a, <<n - 1>>))]

\* The index file_offset + offset_ of &file_buffer[file_offset + offset_].
Address(f, file_offset) == Add(file_offset, Unsigned(f.offset_, U16))

\* One past the last index the memcpy of f reads.
Reach(f, file_offset) == Add(Address(f, file_offset), <<f.size>>)

Faults(f, file_offset) == Less(mapped, Reach(f, file_offset))

\* A faulty variant of set_value: the bytes read are added to the value the
\* field holds.
set_valueAccumulating(f, file_offset) ==
  [f EXCEPT !.value_ = Add(f.value_, memcpy(Address(f, file_offset), f.size))]

set_value(f, file_offset) ==
  [f EXCEPT !.value_ = memcpy(Address(f, file_offset), f.size)]

Max(a, b) == IF Less(a, b) THEN b ELSE a

\* The loop of FieldMap::parse over the entries given; it ends at the first
\* read that faults.  The result: the entries with the values set, whether a
\* read faulted, and one past the highest index read, the faulting read
\* included (reached: the same for the reads before).
RECURSIVE ParseEntries(_, _, _)
ParseEntries(entries, file_offset, reached) ==
  IF entries = <<>>
    THEN [entries |-> <<>>, faulted |-> FALSE, touched |-> reached]
  ELSE LET f   == Head(entries).field
           top == Max(reached, Reach(f, file_offset))
       IN  IF Faults(f, file_offset)
             THEN [entries |-> entries, faulted |-> TRUE, touched |-> top]
             ELSE LET rest == ParseEntries(Tail(entries), file_offset, top)
                  IN  [entries |-> <<Entry(Head(entries).key, set_value(f, file_offset))>>
                                     \o rest.entries,
                       faulted |-> rest.faulted,
                       touched |-> rest.touched]

\* FieldMap::parse: the map after the call, and what the call did.
FieldMap_parse(map) ==
  LET r == ParseEntries(map.entries, map.file_offset_, touched)
  IN  [map |-> [map EXCEPT !.entries = r.entries],
       faulted |-> r.faulted, touched |-> r.touched]

Event(op, table, index, ok) == [op |-> op, table |-> table, index |-> index, ok |-> ok]

(***************************************************************************)
(* The input images.                                                       *)
(***************************************************************************)
\* The bytes of v at the index a + k (a an index, k a natural) and behind it.
RECURSIVE BytesFrom(_, _)
BytesFrom(a, v) ==
  IF v = <<>> THEN <<>>
  ELSE (a :> Head(v)) @@ BytesFrom(Add(a, <<1>>), Tail(v))

Bytes(a, k, v) == BytesFrom(Add(SizeT(a), Unsigned(k, U16)), v)

Magics == {<<77, 90>>, <<90, 77>>, <<90, 0>>}    \* "MZ", "ZM", "Z\0"
Lfanews ==
  {Unsigned(64, U32), Unsigned(128, U32), <<128, 255, 255, 255>>}  \* 0xFFFFFF80
Signatures ==
  {<<80, 69, 0, 0>>, <<80, 69, 1, 0>>, <<81, 69, 0, 0>>}  \* PE\0\0, PE\1\0, QE\0\0
Machines == {Unsigned(34404, U16), Unsigned(4660, U16)}  \* AMD64, none
OptionalHeaderSizes == {Unsigned(0, U16), Unsigned(224, U16)}  \* 0, 0xE0
Characteristics == {Unsigned(290, U16), Unsigned(40963, U16)}  \* 0x0122, 0xA003
FileSizes ==
  {Unsigned(1, U64), Unsigned(64, U64), Unsigned(416, U64),
   <<0, 2, 0, 0, 1, 0, 0, 0>>}                   \* 1, 0x40, 0x1A0, 4 GiB + 0x200

\* The readable bytes behind a buffer of `size` bytes: none, or MaxSlack.
Mappings(size) ==
  IF size \in {Unsigned(1, U64), Unsigned(416, U64)}
    THEN {size, Add(size, Unsigned(MaxSlack, U16))}
    ELSE {size}

\* Characteristics of the section headers of an image, by index.
SectionCharacteristics(n) ==
  IF n % 3 = 0 THEN <<32, 0, 0, 96>>           \* 0x60000020
  ELSE IF n % 3 = 1 THEN <<64, 0, 0, 192>>     \* 0xC0000040
  ELSE <<1, 0, 0, 128>>                        \* 0x80000001

\* The headers of the sections 0 .. n - 1 of the table at the index `table`.
RECURSIVE SectionBytes(_, _)
SectionBytes(table, n) ==
  IF n = 0 THEN <<>>
  ELSE Bytes(table, 40 * (n - 1), <<46, 116, 101, 120, 116, 47 + n, 0, 0>>)
         @@ Bytes(table, 40 * (n - 1) + 8, Unsigned(4096 * n, U32))
         @@ Bytes(table, 40 * (n - 1) + 36, SectionCharacteristics(n - 1))
         @@ SectionBytes(table, n - 1)

\* An image with a DOS header, a COFF header where e_lfanew points and the
\* section headers behind the optional header.
Image(magic, lfanew, signature, machine, sections, optsize, characteristics) ==
  Bytes(<<>>, 0, magic) @@ Bytes(<<>>, 60, lfanew)
    @@ Bytes(lfanew, 0, signature) @@ Bytes(lfanew, 4, machine)
    @@ Bytes(lfanew, 6, Unsigned(sections, U16)) @@ Bytes(lfanew, 20, optsize)
    @@ Bytes(lfanew, 22, characteristics)
    @@ SectionBytes(Add(Add(SizeT(lfanew), <<24>>), optsize), sections)

(***************************************************************************)
(* PEFile::print                                                           *)
(***************************************************************************)
\* The images checked: every choice of the headers behind a valid DOS magic
\* and a signature that passes or nearly passes, and one image for each
\* other magic and each other signature.
Inputs ==
  {Image(<<77, 90>>, lfanew, signature, Unsigned(34404, U16), sections, optsize,
         characteristics) :
     lfanew \in Lfanews, signature \in {<<80, 69, 0, 0>>, <<80, 69, 1, 0>>},
     sections \in 0..MaxSections, optsize \in OptionalHeaderSizes,
     characteristics \in Characteristics}
  \cup {Image(<<77, 90>>, lfanew, signature, machine, 1,
              Unsigned(224, U16), Unsigned(290, U16)) :
          lfanew \in Lfanews, signature \in Signatures, machine \in Machines}
  \cup {Image(magic, Unsigned(128, U32), <<80, 69, 0, 0>>, Unsigned(34404, U16), 1,
              Unsigned(224, U16), Unsigned(290, U16)) : magic \in Magics}

Init ==
  /\ memory \in Inputs
  /\ file_size_ \in FileSizes
  /\ mapped \in Mappings(file_size_)
  /\ pc = "Start"
  /\ dos_field_map_ = NoMap
  /\ coff_header_map = NoMap
  /\ newSection = NoMap
  /\ i = 0
  /\ out = <<>>
  /\ exit_status = -1
  /\ touched = Unsigned(0, U64)
  /\ trace = <<>>

\* The effect of a parse call with the result r on pc, touched, trace and
\* exit_status: a faulting read ends the process with SIGSEGV.
ParseStep(r, table, index, next) ==
  /\ touched' = r.touched
  /\ trace' = Append(trace, Event("parse", table, index, ~r.faulted))
  /\ pc' = IF r.faulted THEN "Crash" ELSE next
  /\ exit_status' = IF r.faulted THEN 139 ELSE exit_status

\* exit( 1 ) after the message.
Exit1(message) ==
  /\ out' = Append(out, TextLine(message))
  /\ pc' = "Abort"
  /\ exit_status' = 1

DosParse ==
  /\ pc = "Start"
  /\ LET r == FieldMap_parse(DOS_FieldMap)
     IN  /\ dos_field_map_' = r.map
         /\ ParseStep(r, "DOS", 0, "DosValidate")
  /\ UNCHANGED <<memory, file_size_, mapped, coff_header_map, newSection, i, out>>

DosValidate ==
  /\ pc = "DosValidate"
  /\ trace' = Append(trace, Event("validate", "DOS", 0, DOS_validate(dos_field_map_)))
  /\ IF ~DOS_validate(dos_field_map_)
       THEN Exit1("The DOS header is invalid")
       ELSE /\ pc' = "DosPrint"
            /\ UNCHANGED <<out, exit_status>>
  /\ UNCHANGED <<memory, file_size_, mapped, dos_field_map_, coff_header_map,
                 newSection, i, touched>>

DosPrint ==
  /\ pc = "DosPrint"
  /\ out' = out \o DOS_print(dos_field_map_)
  /\ trace' = Append(trace, Event("print", "DOS", 0, TRUE))
  /\ pc' = "CoffParse"
  /\ UNCHANGED <<memory, file_size_, mapped, dos_field_map_, coff_header_map,
                 newSection, i, exit_status, touched>>

CoffParse ==
  /\ pc = "CoffParse"
  /\ LET coff_offset == get_exe_header_offset(dos_field_map_)
         r == FieldMap_parse(COFF_FieldMap(coff_offset))
     IN  /\ coff_header_map' = r.map
         /\ ParseStep(r, "COFF", 0, "CoffValidate")
  /\ UNCHANGED <<memory, file_size_, mapped, dos_field_map_, newSection, i, out>>

\* A faulty variant of CoffValidate: the message is written, the run goes on.
CoffValidateNoExit ==
  /\ pc = "CoffValidate"
  /\ trace' = Append(trace, Event("validate", "COFF", 0, COFF_validate(coff_header_map)))
  /\ out' = IF ~COFF_validate(coff_header_map)
              THEN Append(out, TextLine("The COFF header is invalid")) ELSE out
  /\ pc' = "CoffPrint"
  /\ UNCHANGED <<memory, file_size_, mapped, dos_field_map_, coff_header_map,
                 newSection, i, exit_status, touched>>

CoffValidate ==
  /\ pc = "CoffValidate"
  /\ trace' = Append(trace, Event("validate", "COFF", 0, COFF_validate(coff_header_map)))
  /\ IF ~COFF_validate(coff_header_map)
       THEN Exit1("The COFF header is invalid")
       ELSE /\ pc' = "CoffPrint"
            /\ UNCHANGED <<out, exit_status>>
  /\ UNCHANGED <<memory, file_size_, mapped, dos_field_map_, coff_header_map,
                 newSection, i, touched>>

\* coff_header_map.print(), the "Sections" line and the loop's i = 0.
CoffPrint ==
  /\ pc = "CoffPrint"
  /\ out' = (out \o COFF_print(coff_header_map)) \o <<TextLine("Sections")>>
  /\ trace' = Append(trace, Event("print", "COFF", 0, TRUE))
  /\ i' = 0
  /\ pc' = "SectionLoop"
  /\ UNCHANGED <<memory, file_size_, mapped, dos_field_map_, coff_header_map,
                 newSection, exit_status, touched>>

\* The loop test holds: construct and parse the section header i.
SectionParse ==
  /\ pc = "SectionLoop"
  /\ i < Value(get_number_of_sections(coff_header_map))
  /\ LET offset == Add(SizeT(get_section_table_offset(coff_header_map)),
                       Unsigned(i * 40, U32))
         r == FieldMap_parse(Section_FieldMap(offset))
     IN  /\ newSection' = r.map
         /\ ParseStep(r, "Section", i, "SectionValidate")
  /\ UNCHANGED <<memory, file_size_, mapped, dos_field_map_, coff_header_map, i, out>>

SectionValidate ==
  /\ pc = "SectionValidate"
  /\ trace' = Append(trace, Event("validate", "Section", i, FieldMap_validate(newSection)))
  /\ IF ~FieldMap_validate(newSection)
       THEN Exit1("A section header is invalid")
       ELSE /\ pc' = "SectionPrint"
            /\ UNCHANGED <<out, exit_status>>
  /\ UNCHANGED <<memory, file_size_, mapped, dos_field_map_, coff_header_map,
                 newSection, i, touched>>

\* newSection.print(), the empty line and the loop's i++.
SectionPrint ==
  /\ pc = "SectionPrint"
  /\ out' = (out \o Section_print(newSection)) \o <<TextLine("")>>
  /\ trace' = Append(trace, Event("print", "Section", i, TRUE))
  /\ i' = i + 1
  /\ pc' = "SectionLoop"
  /\ UNCHANGED <<memory, file_size_, mapped, dos_field_map_, coff_header_map,
                 newSection, exit_status, touched>>

\* The loop test fails: print returns and main returns 0.
Return ==
  /\ pc = "SectionLoop"
  /\ ~(i < Value(get_number_of_sections(coff_header_map)))
  /\ pc' = "Done"
  /\ exit_status' = 0
  /\ UNCHANGED <<memory, file_size_, mapped, dos_field_map_, coff_header_map,
                 newSection, i, out, touched, trace>>

Next ==
  \/ DosParse
  \/ DosValidate
  \/ DosPrint
  \/ CoffParse
  \/ CoffValidate
  \/ CoffPrint
  \/ SectionParse
  \/ SectionValidate
  \/ SectionPrint
  \/ Return

Spec == Init /\ [][Next]_vars

(***************************************************************************)
(* FieldMap::parse called again on the table that has just been parsed,    *)
(* the buffer unchanged: Reparsed is the position behind such a call, and  *)
(* a table is parsed MaxParses times at most.                              *)
(***************************************************************************)
Parses(table, index) ==
  LET Same(e) == e.op = "parse" /\ e.table = table /\ e.index = index
  IN  Len(SelectSeq(trace, Same))

JustParsed(table, first) ==
  /\ pc \in {first, "Reparsed"}
  /\ trace # <<>>
  /\ trace[Len(trace)].op = "parse"
  /\ trace[Len(trace)].table = table
  /\ Parses(table, trace[Len(trace)].index) < MaxParses

DosReparse ==
  /\ JustParsed("DOS", "DosValidate")
  /\ LET r == FieldMap_parse(dos_field_map_)
     IN  /\ dos_field_map_' = r.map
         /\ ParseStep(r, "DOS", 0, "Reparsed")
  /\ UNCHANGED <<memory, file_size_, mapped, coff_header_map, newSection, i, out>>

CoffReparse ==
  /\ JustParsed("COFF", "CoffValidate")
  /\ LET r == FieldMap_parse(coff_header_map)
     IN  /\ coff_header_map' = r.map
         /\ ParseStep(r, "COFF", 0, "Reparsed")
  /\ UNCHANGED <<memory, file_size_, mapped, dos_field_map_, newSection, i, out>>

SectionReparse ==
  /\ JustParsed("Section", "SectionValidate")
  /\ LET r == FieldMap_parse(newSection)
     IN  /\ newSection' = r.map
         /\ ParseStep(r, "Section", i, "Reparsed")
  /\ UNCHANGED <<memory, file_size_, mapped, dos_field_map_, coff_header_map, i, out>>

NextParse ==
  \/ Next
  \/ DosReparse
  \/ CoffReparse
  \/ SectionReparse

SpecParse == Init /\ [][NextParse]_vars

(***************************************************************************)
(* Notions the properties below are stated in.                             *)
(***************************************************************************)
\* The step given has been made.
Past(op, table, index, ok) ==
  \E n \in DOMAIN trace : trace[n] = Event(op, table, index, ok)

DosValidated == Past("validate", "DOS", 0, TRUE)
CoffValidated == Past("validate", "COFF", 0, TRUE)

IsPrefix(s, t) == Len(s) <= Len(t) /\ s = SubSeq(t, 1, Len(s))

\* The value of the hex digit c.
DigitValue(c) == CHOOSE d \in 0..15 : HexDigits[d + 1] = c

IsHexDigit(c) == \E d \in 0..15 : HexDigits[d + 1] = c

\* The unsigned integer of `size` bytes that the hex digits (most significant
\* first, at most two for each byte) denote.
HexValue(digits, size) ==
  LET count == Len(digits)
      \* the k-th hex digit from the right, 0 where the numeral has none
      Nibble(k) == IF k <= count THEN DigitValue(digits[count + 1 - k]) ELSE 0
  IN  [n \in 1..size |-> Nibble(2 * n - 1) + 16 * Nibble(2 * n)]

\* text is "0x" and the lowercase hex numeral of v without leading zeros.
IsHexNumeral(text, v) ==
  /\ Len(text) >= 3
  /\ Len(text) <= 2 + 2 * Len(v)
  /\ text[1] = "0"
  /\ text[2] = "x"
  /\ text[3] # "0"
  /\ \A k \in 3..Len(text) : IsHexDigit(text[k])
  /\ HexValue(SubSeq(text, 3, Len(text)), Len(v)) = v

(***************************************************************************)
(* C1.  Fail fast: once a validate step has returned false (DOS, COFF or   *)
(* a section), it is the last step of the run: nothing is parsed,          *)
(* validated or printed after it, and the run has ended in Abort with the  *)
(* exit status 1.                                                          *)
(***************************************************************************)
C1_FailFast ==
  \A n \in DOMAIN trace :
    (trace[n].op = "validate" /\ ~trace[n].ok)
      => /\ n = Len(trace)
         /\ pc = "Abort"
         /\ exit_status = 1

\* The COFF header failed validation behind a valid DOS header.
C1_Witness ==
  /\ pc = "Abort"
  /\ exit_status = 1
  /\ Len(trace) = 5
  /\ trace[2] = Event("validate", "DOS", 0, TRUE)
  /\ trace[5] = Event("validate", "COFF", 0, FALSE)

(***************************************************************************)
(* C2.  After the parse of the COFF header, its validation returns true    *)
(* exactly if the four bytes at the COFF base offset are 50 45 00 00       *)
(* (stated here for the runs that have read inside the buffer only).       *)
(***************************************************************************)
C2_SignatureExact ==
  \A n \in DOMAIN trace :
    (trace[n].op = "validate" /\ trace[n].table = "COFF" /\ ~Less(file_size_, touched))
      => (trace[n].ok <=> memcpy(coff_header_map.file_offset_, 4) = <<80, 69, 0, 0>>)

(***************************************************************************)
(* C3.  After the parse of the DOS header, its validation returns true     *)
(* exactly if the bytes at the indices 0 and 1 of the buffer are 4D 5A     *)
(* (for a buffer of less than two bytes: the bytes the read finds there).  *)
(***************************************************************************)
C3_DosMagic ==
  \A n \in DOMAIN trace :
    (trace[n].op = "validate" /\ trace[n].table = "DOS")
      => (trace[n].ok <=> (ByteAt(Unsigned(0, U64)) = 77 /\ ByteAt(Unsigned(1, U64)) = 90))

\* A DOS header with the magic MZ has passed validation.
C3_Witness ==
  /\ pc = "DosPrint"
  /\ DosValidated
  /\ at(dos_field_map_, k_01_dos_e_magic).value_ = <<77, 90>>

(***************************************************************************)
(* C4.  No parse reads an index at or past the length of the buffer: a     *)
(* field that reaches past it makes the parse fail instead.                *)
(***************************************************************************)
C4_BoundsChecked == ~Less(file_size_, touched)

(***************************************************************************)
(* C5.  Offset chaining: the COFF table is based at e_lfanew, and the      *)
(* table of section i at the exact sum                                     *)
(* e_lfanew + 0x18 + SizeOfOptionalHeader + i * 0x28.                      *)
(***************************************************************************)
C5_OffsetChaining ==
  LET e_lfanew == at(dos_field_map_, k_16_dos_e_lfanew).value_
      optsize  == at(coff_header_map, k_07_coff_SizeOfOptionalHeader).value_
  IN  /\ Past("parse", "COFF", 0, TRUE)
           => coff_header_map.file_offset_ = SizeT(e_lfanew)
      /\ pc \in {"SectionValidate", "SectionPrint"}
           => newSection.file_offset_
                = Add(Add(Add(SizeT(e_lfanew), <<24>>), optsize), Unsigned(i * 40, U32))

(***************************************************************************)
(* The table that has just been printed, and the lines its print wrote.    *)
(***************************************************************************)
HasPrinted == pc \in {"CoffParse", "SectionLoop"}

LastPrinted ==
  IF pc = "CoffParse"
    THEN [map |-> dos_field_map_, header |-> "DOS Header", schema |-> DOS_Schema]
  ELSE IF i = 0
    THEN [map |-> coff_header_map, header |-> "COFF/File header", schema |-> COFF_Schema]
  ELSE [map |-> newSection, header |-> "    Section", schema |-> Section_Schema]

\* The lines of cout behind the last header line of the table just printed.
PrintedLines ==
  LET header == TextLine(LastPrinted.header)
      last   == CHOOSE k \in DOMAIN out :
                  out[k] = header /\ \A j \in DOMAIN out : j > k => out[j] # header
  IN  SubSeq(out, last + 1, Len(out))

\* The lines among them of the kind and, for a non-empty label, label given.
Lines(kind, label) ==
  LET Wanted(line) == line.kind = kind /\ (label = <<>> \/ line.label = label)
  IN  SelectSeq(PrintedLines, Wanted)

(***************************************************************************)
(* C6.  Hex rendering of a field whose rules are exactly AS_HEX, as the    *)
(* claim states it: "0x" and the lowercase hex digits without leading      *)
(* zeros for a value that is not zero, and the one character "0" for zero. *)
(***************************************************************************)
C6_HexRuleZeroIsOneChar ==
  HasPrinted =>
    \A k \in DOMAIN Lines("field", <<>>) :
      LET line == Lines("field", <<>>)[k]
          f    == at(LastPrinted.map, line.label)
      IN  f.rules_ = AS_HEX =>
            IF IsZero(f.value_) THEN line.value = <<"0">>
            ELSE IsHexNumeral(line.value, f.value_)

(***************************************************************************)
(* C6, amended.  The same, with the two characters "0 " (a zero and a      *)
(* blank) for the value zero.                                              *)
(***************************************************************************)
C6_HexRule ==
  HasPrinted =>
    \A k \in DOMAIN Lines("field", <<>>) :
      LET line == Lines("field", <<>>)[k]
          f    == at(LastPrinted.map, line.label)
      IN  f.rules_ = AS_HEX =>
            IF IsZero(f.value_) THEN line.value = <<"0", " ">>
            ELSE IsHexNumeral(line.value, f.value_)

\* The DOS header is printed with e_sp = 0 and e_lfanew = 0xFFFFFF80.
C6_Witness ==
  /\ pc = "CoffParse"
  /\ \E k \in DOMAIN PrintedLines :
       /\ PrintedLines[k].description = "Initial SP value"
       /\ PrintedLines[k].value = <<"0", " ">>
  /\ \E k \in DOMAIN PrintedLines :
       /\ PrintedLines[k].label = k_16_dos_e_lfanew
       /\ PrintedLines[k].value = <<"0", "x", "f", "f", "f", "f", "f", "f", "8", "0">>

(***************************************************************************)
(* C7.  Multi-flag rendering: print_characteristics writes one line for    *)
(* each set bit of the value, in ascending bit position, and none for an   *)
(* unset bit; the line carries the registry name under (key, mask) if      *)
(* there is one, else the unknown-flag marker with the mask in hex.        *)
(***************************************************************************)
BitSet(v, b) == (v[(b \div 8) + 1] \div Pow2(b % 8)) % 2 = 1

MaskOf(b, size) == [n \in 1..size |-> IF n = (b \div 8) + 1 THEN Pow2(b % 8) ELSE 0]

FlagTextOk(line) ==
  IF <<line.label, Convert(line.mask, U32)>> \in DOMAIN flags
    THEN line.value = <<flags[<<line.label, Convert(line.mask, U32)>>]>>
    ELSE /\ Len(line.value) > 1
         /\ line.value[1] = "UNKNOWN FLAG MAPPING: "
         /\ IsHexNumeral(Tail(line.value), line.mask)

C7_MultiFlag ==
  HasPrinted =>
    \A n \in DOMAIN LastPrinted.map.entries :
      LET e == LastPrinted.map.entries[n]
          f == e.field
          L == Lines("flag", e.key)
      IN  HasRule(f.rules_, WITH_FLAGS) =>
            /\ \A b \in 0..(8 * f.size - 1) :
                 BitSet(f.value_, b) <=> \E k \in DOMAIN L : L[k].mask = MaskOf(b, f.size)
            /\ \A k \in DOMAIN L :
                 \E b \in 0..(8 * f.size - 1) : L[k].mask = MaskOf(b, f.size)
            /\ \A k \in 1..(Len(L) - 1) : Less(L[k].mask, L[k + 1].mask)
            /\ \A k \in DOMAIN L : FlagTextOk(L[k])

\* The COFF header is printed with the characteristics 0x0122: the three
\* names of 0x0002, 0x0020 and 0x0100, in this order.
C7_Witness ==
  /\ pc = "SectionLoop"
  /\ i = 0
  /\ at(coff_header_map, k_08_coff_characteristics).value_ = <<34, 1>>
  /\ [k \in DOMAIN Lines("flag", k_08_coff_characteristics) |->
        Lines("flag", k_08_coff_characteristics)[k].value]
       = << <<"IMAGE_FILE_EXECUTABLE_IMAGE">>,
            <<"IMAGE_FILE_LARGE_ADDRESS_AWARE">>,
            <<"IMAGE_FILE_32BIT_MACHINE">> >>

(***************************************************************************)
(* C8.  Section iteration and completion: behind a valid DOS and COFF      *)
(* header the sections 0 .. N - 1 (N the decoded NumberOfSections) are     *)
(* parsed, validated and printed in this order, each once, and the run     *)
(* then reaches Done.                                                      *)
(***************************************************************************)
SectionEvents ==
  LET OfSection(e) == e.table = "Section" IN SelectSeq(trace, OfSection)

ExpectedSectionEvents(count) ==
  [k \in 1..(3 * count) |->
     Event(<<"parse", "validate", "print">>[((k - 1) % 3) + 1], "Section",
           (k - 1) \div 3, TRUE)]

C8_SectionsThenDone ==
  CoffValidated =>
    LET expected ==
          ExpectedSectionEvents(Value(get_number_of_sections(coff_header_map)))
    IN  /\ IsPrefix(SectionEvents, expected)
        /\ pc = "Done" => SectionEvents = expected
        /\ pc \notin {"Abort", "Crash"}

(***************************************************************************)
(* C10.  Print order: FieldMap::print writes the fields in the order the   *)
(* constructor declares them, the fields of an empty rendering left out.   *)
(***************************************************************************)
C10_PrintOrder ==
  HasPrinted =>
    LET declared == [n \in DOMAIN LastPrinted.schema |-> LastPrinted.schema[n].key]
        Rendered(label) == get_value(at(LastPrinted.map, label)) # <<>>
        printed == Lines("field", <<>>)
    IN  [k \in DOMAIN printed |-> printed[k].label] = SelectSeq(declared, Rendered)

\* The second section header is printed (behind the DOS and COFF headers).
C10_Witness ==
  /\ pc = "SectionLoop"
  /\ i = 2
  /\ Len(Lines("field", <<>>)) = 7

(***************************************************************************)
(* C9.  Parse idempotence: a step that parses a table again, right after   *)
(* a parse of this table that read the buffer, succeeds and leaves the     *)
(* table as it is: its base offset, and the offset, description, rules and *)
(* value of each of its fields.                                            *)
(***************************************************************************)
ParsedAgain(table) ==
  /\ trace # <<>>
  /\ trace[Len(trace)].op = "parse"
  /\ trace[Len(trace)].table = table
  /\ trace[Len(trace)].ok
  /\ Len(trace') = Len(trace) + 1
  /\ trace'[Len(trace')].op = "parse"
  /\ trace'[Len(trace')].table = table
  /\ trace'[Len(trace')].index = trace[Len(trace)].index

C9_ParseIdempotent ==
  [][/\ ParsedAgain("DOS") => (dos_field_map_' = dos_field_map_ /\ pc' = "Reparsed")
     /\ ParsedAgain("COFF") => (coff_header_map' = coff_header_map /\ pc' = "Reparsed")
     /\ ParsedAgain("Section") => (newSection' = newSection /\ pc' = "Reparsed")]_vars

\* The section header 1 has been parsed twice, and its characteristics are
\* not zero.
C9_Witness ==
  /\ pc = "Reparsed"
  /\ i = 1
  /\ Parses("Section", 1) = 2
  /\ ~IsZero(at(newSection, k_07_section_characteristics).value_)

(***************************************************************************)
(* C11.  Section validation cannot fail: every field of a section table    *)
(* has a description that is not empty, so Section_FieldMap::validate      *)
(* returns true behind every parse, for every buffer and section index;    *)
(* the message "A section header is invalid" is never written, and a run   *)
(* in Abort has ended with a DOS or COFF validation that failed.           *)
(***************************************************************************)
C11_SectionValidates ==
  /\ \A n \in DOMAIN newSection.entries :
       newSection.entries[n].field.description_ # ""
  /\ pc = "SectionValidate" => FieldMap_validate(newSection)
  /\ \A n \in DOMAIN trace :
       (trace[n].op = "validate" /\ trace[n].table = "Section") => trace[n].ok
  /\ \A k \in DOMAIN out : out[k] # TextLine("A section header is invalid")
  /\ pc = "Abort" =>
       /\ trace # <<>>
       /\ trace[Len(trace)].op = "validate"
       /\ trace[Len(trace)].table \in {"DOS", "COFF"}
       /\ ~trace[Len(trace)].ok
       /\ out[Len(out)] \in {TextLine("The DOS header is invalid"),
                              TextLine("The COFF header is invalid")}

\* The section header 1 has been parsed (its 7 fields read, the
\* characteristics not zero) and validated.
C11_Witness ==
  /\ pc = "SectionPrint"
  /\ i = 1
  /\ Len(newSection.entries) = 7
  /\ ~IsZero(at(newSection, k_07_section_characteristics).value_)
  /\ trace[Len(trace)] = Event("validate", "Section", 1, TRUE)

====
